---- MODULE Spec2Model ----
(***************************************************************************)
(* Model of the instrumented allocator of src/src/memory.c: the process-   *)
(* wide Memory_Stats aggregate, the heap of the underlying C allocator,    *)
(* and one action per ds_* entry point.                                    *)
(*                                                                         *)
(* The statistics code never looks at an address, only at whether a        *)
(* pointer is null, so a pointer is NULL or BLOCK and the heap is the bag  *)
(* of the byte sizes of the live blocks.                                   *)
(*                                                                         *)
(* Spec is the allocator with CHECKED_ALLOC; SpecMem is the byte-region    *)
(* calls and the statistics readers beside ds_free;                        *)
(* SpecBytes is the byte-region calls alone; SpecPure is the Result        *)
(* functions and macros of include/error.h and the power-of-two functions  *)
(* of utils.c, each applied to an argument drawn at the start;             *)
(* SpecThreads is two threads each making one ds_malloc or ds_free call,   *)
(* a field update being a load and a store, with or without one mutex      *)
(* held around every call.                                                 *)
(***************************************************************************)
EXTENDS Integers, Sequences, FiniteSets, Bags, TLC

(* ------------------------------------------------------------------ *)
(* Bounds                                                             *)
(* ------------------------------------------------------------------ *)
\* width in bits of usize in the model (size_t is 32 or 64 bits in a build)
UsizeBits == 2
\* number of blocks the underlying allocator can keep live at one time
MaxBlocks == 2
\* bytes the underlying allocator can hold at one time
HeapCap == 2
\* cap on allocation_count between two resets
MaxCalls == 2
\* cap on free_count between two resets
MaxFrees == 1
\* number of bytes of the buffer the byte-region calls work on
MemLen == 3
\* width in bits of usize for the arithmetic of next_power_of_two and
\* is_power_of_two, wide enough for three of the shifts to move bits
WordBits == 5

Modulus == 2 ^ UsizeBits
Usize == 0 .. (Modulus - 1)
Wrap(x) == x % Modulus
Max(a, b) == IF a > b THEN a ELSE b
Min(a, b) == IF a < b THEN a ELSE b

\* the null pointer, and a pointer to a block
NULL == 0
BLOCK == 1

\* argument values the callers pass: byte sizes, and element counts and
\* element sizes whose product is zero, small, or overflows usize
Sizes == {0, 1, Modulus - 1}
Counts == {0, 1, Modulus - 1}
ArrayCounts == {1, Modulus - 1}
ElemSizes == {2}

(* ------------------------------------------------------------------ *)
(* State                                                              *)
(* ------------------------------------------------------------------ *)
VARIABLES
    stats,       \* static Memory_Stats stats
    heap,        \* the live blocks of the underlying allocator: bag of sizes
    last,        \* the call that has just returned: name, arguments, result
    allocs_only, \* history: only successful allocations since stats was zero
    run_max,     \* history: largest current_usage seen in such a run, else 0
    mem,         \* the bytes of a caller's buffer, by offset
    copy,        \* a caller's variable assigned from ds_get_memory_stats()
    input,       \* the argument a caller of the stateless functions holds
    threads      \* the threads calling into the allocator at one time

vars == <<stats, heap, last, allocs_only, run_max, mem, copy, input, threads>>
\* what the allocator entry points never touch
outside == <<mem, copy, input, threads>>

Memory_Stats == [total_allocated : Usize, total_freed : Usize,
                 current_usage : Usize, peak_usage : Usize,
                 allocation_count : Usize, free_count : Usize]

\* no thread but the one caller of the sequential operations
NoThreads == [guarded |-> FALSE, owner |-> 0, thread |-> <<>>]

\* static Memory_Stats stats = {0};
stats_init == [total_allocated |-> 0, total_freed |-> 0, current_usage |-> 0,
               peak_usage |-> 0, allocation_count |-> 0, free_count |-> 0]

(* ------------------------------------------------------------------ *)
(* The underlying C allocator (malloc, calloc, realloc, free)         *)
(* ------------------------------------------------------------------ *)
\* one block of size bytes
One(size) == SetToBag({size})
\* the bytes of the live blocks
Used(h) == LET RECURSIVE Sum(_)
               Sum(S) == IF S = {} THEN 0
                         ELSE LET n == CHOOSE m \in S : TRUE
                              IN n * CopiesIn(n, h) + Sum(S \ {n})
           IN Sum(BagToSet(h))
\* whether one more block of n bytes fits (a heap never holds as many bytes
\* as usize can count)
Fits(h, n) == /\ BagCardinality(h) < MaxBlocks
              /\ Used(h) + n <= Min(HeapCap, Modulus - 1)

\* malloc(size): refusal, or a fresh block of size bytes
malloc(h, size) ==
    {[result |-> NULL, heap |-> h]} \cup
    (IF Fits(h, size)
     THEN {[result |-> BLOCK, heap |-> h (+) One(size)]} ELSE {})

\* calloc(count, size): refusal (always when count*size does not fit usize),
\* or a fresh block of count*size bytes
calloc(h, count, size) ==
    {[result |-> NULL, heap |-> h]} \cup
    (IF count * size < Modulus /\ Fits(h, count * size)
     THEN {[result |-> BLOCK, heap |-> h (+) One(count * size)]} ELSE {})

\* free(pointer) of a live block of old bytes
free(h, old) == h (-) One(old)

\* realloc(pointer, new_size), pointer NULL or a live block of old bytes: a
\* null pointer makes it malloc(new_size); a zero new_size is
\* implementation-defined (release and return NULL, release and return an
\* empty block, or refuse); otherwise the block is resized, in place or
\* moved, or the request is refused and the block left untouched
realloc(h, pointer, old, new_size) ==
    IF pointer = NULL THEN malloc(h, new_size)
    ELSE LET released == free(h, old)
         IN {[result |-> NULL, heap |-> h]} \cup
            (IF new_size = 0
             THEN {[result |-> NULL, heap |-> released]} ELSE {}) \cup
            (IF Fits(released, new_size)
             THEN {[result |-> BLOCK, heap |-> released (+) One(new_size)]}
             ELSE {})

\* what a pointer argument may address: nothing for NULL (old size 0), one of
\* the live blocks otherwise
Pointee(h, pointer) == IF pointer = NULL THEN {0} ELSE BagToSet(h)

(* ------------------------------------------------------------------ *)
(* Statistics updates of the wrappers                                 *)
(* ------------------------------------------------------------------ *)
\* ds_malloc without the peak_usage update
ds_malloc_stats_no_peak(s, size, result) ==
    IF result # NULL
    THEN [s EXCEPT !.total_allocated = Wrap(s.total_allocated + size),
                   !.current_usage = Wrap(s.current_usage + size),
                   !.allocation_count = Wrap(s.allocation_count + 1)]
    ELSE s

\* ds_malloc without the if(result) test
ds_malloc_stats_unchecked(s, size, result) ==
    LET usage == Wrap(s.current_usage + size)
    IN [s EXCEPT !.total_allocated = Wrap(s.total_allocated + size),
                 !.current_usage = usage,
                 !.allocation_count = Wrap(s.allocation_count + 1),
                 !.peak_usage = IF usage > s.peak_usage
                                THEN usage ELSE s.peak_usage]

\* ds_malloc: the if(result) block
ds_malloc_stats(s, size, result) ==
    IF result # NULL
    THEN LET usage == Wrap(s.current_usage + size)
         IN [s EXCEPT !.total_allocated = Wrap(s.total_allocated + size),
                      !.current_usage = usage,
                      !.allocation_count = Wrap(s.allocation_count + 1),
                      !.peak_usage = IF usage > s.peak_usage
                                     THEN usage ELSE s.peak_usage]
    ELSE s

\* ds_calloc without the peak_usage update
ds_calloc_stats_no_peak(s, count, size, result) ==
    LET total_size == Wrap(count * size)
    IN IF result # NULL
       THEN [s EXCEPT !.total_allocated =
                          Wrap(s.total_allocated + total_size),
                      !.current_usage = Wrap(s.current_usage + total_size),
                      !.allocation_count = Wrap(s.allocation_count + 1)]
       ELSE s

\* ds_calloc counting the element size instead of count * size
ds_calloc_stats_element_size(s, count, size, result) ==
    LET total_size == size
    IN IF result # NULL
       THEN LET usage == Wrap(s.current_usage + total_size)
            IN [s EXCEPT !.total_allocated =
                             Wrap(s.total_allocated + total_size),
                         !.current_usage = usage,
                         !.allocation_count = Wrap(s.allocation_count + 1),
                         !.peak_usage = IF usage > s.peak_usage
                                        THEN usage ELSE s.peak_usage]
       ELSE s

\* ds_calloc: usize total_size = count * size; and the if(result) block
ds_calloc_stats(s, count, size, result) ==
    LET total_size == Wrap(count * size)
    IN IF result # NULL
       THEN LET usage == Wrap(s.current_usage + total_size)
            IN [s EXCEPT !.total_allocated =
                             Wrap(s.total_allocated + total_size),
                         !.current_usage = usage,
                         !.allocation_count = Wrap(s.allocation_count + 1),
                         !.peak_usage = IF usage > s.peak_usage
                                        THEN usage ELSE s.peak_usage]
       ELSE s

\* ds_realloc adding new_size to total_allocated only
ds_realloc_stats_allocated_only(s, new_size, result) ==
    IF result # NULL /\ new_size > 0
    THEN [s EXCEPT !.total_allocated = Wrap(s.total_allocated + new_size)]
    ELSE s

\* ds_realloc with the peak_usage update of ds_malloc
ds_realloc_stats_with_peak(s, new_size, result) ==
    IF result # NULL /\ new_size > 0
    THEN LET usage == Wrap(s.current_usage + new_size)
         IN [s EXCEPT !.total_allocated = Wrap(s.total_allocated + new_size),
                      !.current_usage = usage,
                      !.peak_usage = IF usage > s.peak_usage
                                     THEN usage ELSE s.peak_usage]
    ELSE s

\* ds_realloc: the if(result && new_size > 0) block
ds_realloc_stats(s, new_size, result) ==
    IF result # NULL /\ new_size > 0
    THEN [s EXCEPT !.total_allocated = Wrap(s.total_allocated + new_size),
                   !.current_usage = Wrap(s.current_usage + new_size)]
    ELSE s

\* ds_free also counting one freed byte
ds_free_stats_freed_bytes(s, pointer) ==
    IF pointer # NULL
    THEN [s EXCEPT !.free_count = Wrap(s.free_count + 1),
                   !.total_freed = Wrap(s.total_freed + 1)]
    ELSE s

\* ds_free without the if(pointer) test
ds_free_stats_unchecked(s, pointer) ==
    [s EXCEPT !.free_count = Wrap(s.free_count + 1)]

\* ds_free taking the call back out of allocation_count
ds_free_stats_live_count(s, pointer) ==
    IF pointer # NULL
    THEN [s EXCEPT !.free_count = Wrap(s.free_count + 1),
                   !.allocation_count = Wrap(s.allocation_count - 1)]
    ELSE s

\* ds_free: the if(pointer) block
ds_free_stats(s, pointer) ==
    IF pointer # NULL
    THEN [s EXCEPT !.free_count = Wrap(s.free_count + 1)]
    ELSE s

\* history variables after a call that leaves the statistics at s; only
\* tells whether the call was a successful allocation
Track(s, only) ==
    /\ allocs_only' = (allocs_only /\ only)
    /\ run_max' = IF allocs_only /\ only
                  THEN Max(run_max, s.current_usage) ELSE 0

(* ------------------------------------------------------------------ *)
(* Operations                                                         *)
(* ------------------------------------------------------------------ *)
ds_malloc ==
    /\ stats.allocation_count < MaxCalls
    /\ \E size \in Sizes : \E r \in malloc(heap, size) :
         /\ heap' = r.heap
         /\ stats' = ds_malloc_stats(stats, size, r.result)
         /\ last' = [op |-> "ds_malloc", size |-> size,
                     raw |-> r.result, result |-> r.result]
         /\ Track(stats', r.result # NULL)
         /\ UNCHANGED outside

ds_calloc ==
    /\ stats.allocation_count < MaxCalls
    /\ \E count \in Counts, size \in ElemSizes :
       \E r \in calloc(heap, count, size) :
         /\ heap' = r.heap
         /\ stats' = ds_calloc_stats(stats, count, size, r.result)
         /\ last' = [op |-> "ds_calloc", count |-> count, size |-> size,
                     raw |-> r.result, result |-> r.result]
         /\ Track(stats', r.result # NULL)
         /\ UNCHANGED outside

ds_realloc ==
    \E pointer \in {NULL, BLOCK}, new_size \in Sizes :
    \E old \in Pointee(heap, pointer) :
    \E r \in realloc(heap, pointer, old, new_size) :
      /\ heap' = r.heap
      /\ stats' = ds_realloc_stats(stats, new_size, r.result)
      /\ last' = [op |-> "ds_realloc", pointer |-> pointer,
                  size |-> new_size, raw |-> r.result, result |-> r.result]
      /\ Track(stats', FALSE)
      /\ UNCHANGED outside

ds_free ==
    /\ stats.free_count < MaxFrees
    /\ \E pointer \in {NULL, BLOCK} : \E old \in Pointee(heap, pointer) :
         /\ heap' = IF pointer # NULL THEN free(heap, old) ELSE heap
         /\ stats' = ds_free_stats(stats, pointer)
         /\ last' = [op |-> "ds_free", pointer |-> pointer]
         /\ Track(stats', FALSE)
         /\ UNCHANGED outside

\* an array wrapper that multiplies itself:
\* return ds_malloc(count * element_size);
ds_alloc_array_malloc ==
    /\ stats.allocation_count < MaxCalls
    /\ \E count \in ArrayCounts, element_size \in ElemSizes :
       LET total == Wrap(count * element_size)
       IN \E r \in malloc(heap, total) :
            /\ heap' = r.heap
            /\ stats' = ds_malloc_stats(stats, total, r.result)
            /\ last' = [op |-> "ds_alloc_array", count |-> count,
                        size |-> element_size,
                        raw |-> r.result, result |-> r.result]
            /\ Track(stats', r.result # NULL)
            /\ UNCHANGED outside

\* return ds_calloc(count, element_size);
ds_alloc_array ==
    /\ stats.allocation_count < MaxCalls
    /\ \E count \in ArrayCounts, element_size \in ElemSizes :
       \E r \in calloc(heap, count, element_size) :
         /\ heap' = r.heap
         /\ stats' = ds_calloc_stats(stats, count, element_size, r.result)
         /\ last' = [op |-> "ds_alloc_array", count |-> count,
                     size |-> element_size,
                     raw |-> r.result, result |-> r.result]
         /\ Track(stats', r.result # NULL)
         /\ UNCHANGED outside

\* return ds_realloc(array, new_count * element_size);
ds_realloc_array ==
    \E array \in {NULL, BLOCK}, new_count \in ArrayCounts,
       element_size \in ElemSizes :
    \E old \in Pointee(heap, array) :
    LET new_size == Wrap(new_count * element_size)
    IN \E r \in realloc(heap, array, old, new_size) :
         /\ heap' = r.heap
         /\ stats' = ds_realloc_stats(stats, new_size, r.result)
         /\ last' = [op |-> "ds_realloc_array", pointer |-> array,
                     count |-> new_count, size |-> element_size,
                     raw |-> r.result, result |-> r.result]
         /\ Track(stats', FALSE)
         /\ UNCHANGED outside

\* ds_get_memory_stats clearing the aggregate once it is read
ds_get_memory_stats_clearing ==
    /\ last' = [op |-> "ds_get_memory_stats", result |-> stats]
    /\ stats' = [f \in DOMAIN stats |-> 0]
    /\ Track(stats, FALSE)
    /\ UNCHANGED heap
    /\ UNCHANGED outside

\* Memory_Stats ds_get_memory_stats(void) { return stats; }
ds_get_memory_stats ==
    /\ last' = [op |-> "ds_get_memory_stats", result |-> stats]
    /\ Track(stats, FALSE)
    /\ UNCHANGED <<stats, heap>>
    /\ UNCHANGED outside

\* ds_reset_memory_stats leaving peak_usage as it is
ds_reset_memory_stats_keep_peak ==
    /\ stats' = [f \in DOMAIN stats |->
                   IF f = "peak_usage" THEN stats[f] ELSE 0]
    /\ last' = [op |-> "ds_reset_memory_stats"]
    /\ allocs_only' = TRUE
    /\ run_max' = 0
    /\ UNCHANGED heap
    /\ UNCHANGED outside

\* void ds_reset_memory_stats(void) { stats = (Memory_Stats){0}; }
ds_reset_memory_stats ==
    /\ stats' = [f \in DOMAIN stats |-> 0]
    /\ last' = [op |-> "ds_reset_memory_stats"]
    /\ allocs_only' = TRUE
    /\ run_max' = 0
    /\ UNCHANGED heap
    /\ UNCHANGED outside

(* ------------------------------------------------------------------ *)
(* Results                                                            *)
(* ------------------------------------------------------------------ *)
\* typedef enum { DS_SUCCESS = 0, ... } Result_Code;
DS_SUCCESS == 0
DS_ERROR_INVALID_ARGUMENT == 1
DS_ERROR_MEMORY_ALLOCATION == 2
DS_ERROR_INDEX_OUT_OF_BOUNDS == 3
DS_ERROR_EMPTY_CONTAINER == 4
DS_ERROR_FULL_CONTAINER == 5
DS_ERROR_NOT_FOUND == 6
DS_ERROR_DUPLICATE == 7
DS_ERROR_OVERFLOW == 8
DS_ERROR_UNDERFLOW == 9
DS_ERROR_NULL_POINTER == 10
DS_ERROR_CORRUPTED_DATA == 11
DS_ERROR_NOT_IMPLEMENTED == 12
DS_ERROR_UNKNOWN == 13

\* #define RESULT_ERROR(code, msg) ((Result){code, msg, __FILE__, __LINE__})
\* expanded at the place site
RESULT_ERROR(code, msg, site) ==
    [code |-> code, message |-> msg, file |-> site.file, line |-> site.line]

\* #define RESULT_SUCCESS ((Result){DS_SUCCESS, "Success.", __FILE__, __LINE__})
RESULT_SUCCESS(site) ==
    [code |-> DS_SUCCESS, message |-> "Success.",
     file |-> site.file, line |-> site.line]

\* the types CHECKED_ALLOC is used with and their sizeof: one byte, and a
\* type as large as usize can express
Types == {"byte", "Memory_Stats"}
sizeof(type) == IF type = "byte" THEN 1 ELSE Modulus - 1
\* the place in a caller where CHECKED_ALLOC stands
AllocSite == [file |-> "caller.c", line |-> 1]

\* CHECKED_ALLOC going on with a null ptr
CHECKED_ALLOC_unchecked ==
    /\ stats.allocation_count < MaxCalls
    /\ \E type \in Types : \E r \in malloc(heap, sizeof(type)) :
         /\ heap' = r.heap
         /\ stats' = ds_malloc_stats(stats, sizeof(type), r.result)
         /\ last' = [op |-> "CHECKED_ALLOC", type |-> type,
                     size |-> sizeof(type), raw |-> r.result,
                     ptr |-> r.result, returned |-> FALSE]
         /\ Track(stats', r.result # NULL)
         /\ UNCHANGED outside

\* ptr = ALLOC(type); if(!ptr) return RESULT_ERROR(DS_ERROR_MEMORY_ALLOCATION,
\* "Failed to allocate " #type);   with ALLOC(type) ds_malloc(sizeof(type))
CHECKED_ALLOC ==
    /\ stats.allocation_count < MaxCalls
    /\ \E type \in Types : \E r \in malloc(heap, sizeof(type)) :
         /\ heap' = r.heap
         /\ stats' = ds_malloc_stats(stats, sizeof(type), r.result)
         /\ last' = IF r.result = NULL
                    THEN [op |-> "CHECKED_ALLOC", type |-> type,
                          size |-> sizeof(type), raw |-> r.result,
                          ptr |-> r.result, returned |-> TRUE,
                          result |-> RESULT_ERROR(DS_ERROR_MEMORY_ALLOCATION,
                                                  "Failed to allocate " \o type,
                                                  AllocSite)]
                    ELSE [op |-> "CHECKED_ALLOC", type |-> type,
                          size |-> sizeof(type), raw |-> r.result,
                          ptr |-> r.result, returned |-> FALSE]
         /\ Track(stats', r.result # NULL)
         /\ UNCHANGED outside

Init ==
    /\ stats = stats_init
    /\ heap = EmptyBag
    /\ last = [op |-> "start"]
    /\ allocs_only = TRUE
    /\ run_max = 0
    /\ mem = [a \in 0 .. MemLen - 1 |-> 0]
    /\ copy = stats_init
    /\ input = [kind |-> "none"]
    /\ threads = NoThreads

Next ==
    \/ ds_malloc
    \/ ds_calloc
    \/ ds_realloc
    \/ ds_free
    \/ ds_alloc_array
    \/ ds_realloc_array
    \/ ds_get_memory_stats
    \/ ds_reset_memory_stats
    \/ CHECKED_ALLOC

Spec == Init /\ [][Next]_vars

TypeOK ==
    /\ stats \in Memory_Stats
    /\ IsABag(heap) /\ BagToSet(heap) \subseteq 0 .. HeapCap
    /\ BagCardinality(heap) <= MaxBlocks
    /\ Used(heap) <= Min(HeapCap, Modulus - 1)
    /\ allocs_only \in BOOLEAN
    /\ run_max \in Usize

(* ------------------------------------------------------------------ *)
(* Byte regions                                                       *)
(* ------------------------------------------------------------------ *)
\* the values of a byte of the buffer, as memcmp reads it (unsigned char)
Bytes == {0, 1}
\* a pointer into the buffer is an offset; MemLen is one past its end
Addrs == 0 .. MemLen
Region(p, size) == p .. (p + size - 1)
InBuffer(p, size) == p + size <= MemLen
Overlap(p, q, size) == Region(p, size) \cap Region(q, size) # {}
\* the size bytes at p, in order
Held(m, p, size) == [i \in 1 .. size |-> m[p + i - 1]]

\* a copy one byte at a time, from the lowest address or from the highest
RECURSIVE CopyUp(_, _, _, _, _)
CopyUp(m, dest, src, size, i) ==
    IF i = size THEN m
    ELSE CopyUp([m EXCEPT ![dest + i] = m[src + i]], dest, src, size, i + 1)

RECURSIVE CopyDown(_, _, _, _)
CopyDown(m, dest, src, i) ==
    IF i = 0 THEN m
    ELSE CopyDown([m EXCEPT ![dest + i - 1] = m[src + i - 1]],
                  dest, src, i - 1)

\* memmove as a copy from the lowest address, whatever the regions
memmove_forward(m, dest, src, size) == CopyUp(m, dest, src, size, 0)

\* memmove: the bytes at src are read before any byte at dest is written
memmove(m, dest, src, size) ==
    [a \in DOMAIN m |->
       IF a \in Region(dest, size) THEN m[src + (a - dest)] ELSE m[a]]

\* memcpy: the buffers a call can leave. On overlapping regions the
\* behaviour is undefined; the outcomes are those of the copy loops a C
\* library uses.
memcpy(m, dest, src, size) ==
    IF Overlap(dest, src, size)
    THEN {CopyUp(m, dest, src, size, 0), CopyDown(m, dest, src, size),
          memmove(m, dest, src, size)}
    ELSE {CopyUp(m, dest, src, size, 0)}

\* memcmp: the sign of the difference of the first two bytes that differ
RECURSIVE memcmp(_, _, _, _)
memcmp(m, ptr1, ptr2, size) ==
    IF size = 0 THEN 0
    ELSE IF m[ptr1] < m[ptr2] THEN -1
    ELSE IF m[ptr1] > m[ptr2] THEN 1
    ELSE memcmp(m, ptr1 + 1, ptr2 + 1, size - 1)

\* memset
memset(m, dest, value, size) ==
    [a \in DOMAIN m |-> IF a \in Region(dest, size) THEN value ELSE m[a]]

\* what a byte-region call leaves alone
allocator == <<stats, heap, allocs_only, run_max>>

\* void ds_memcpy(ptr dest, cptr src, usize size) { memcpy(dest, src, size); }
ds_memcpy ==
    \E dest \in Addrs, src \in Addrs, size \in 0 .. MemLen :
      /\ InBuffer(dest, size) /\ InBuffer(src, size)
      /\ mem' \in memcpy(mem, dest, src, size)
      /\ last' = [op |-> "ds_memcpy", dest |-> dest, src |-> src,
                  size |-> size, before |-> Held(mem, src, size)]
      /\ UNCHANGED <<allocator, copy, input, threads>>

\* void ds_memmove(ptr dest, cptr src, usize size) { memmove(dest, src, size); }
ds_memmove ==
    \E dest \in Addrs, src \in Addrs, size \in 0 .. MemLen :
      /\ InBuffer(dest, size) /\ InBuffer(src, size)
      /\ mem' = memmove(mem, dest, src, size)
      /\ last' = [op |-> "ds_memmove", dest |-> dest, src |-> src,
                  size |-> size, before |-> Held(mem, src, size)]
      /\ UNCHANGED <<allocator, copy, input, threads>>

\* int ds_memcmp(cptr ptr1, cptr ptr2, usize size)
ds_memcmp ==
    \E ptr1 \in Addrs, ptr2 \in Addrs, size \in 0 .. MemLen :
      /\ InBuffer(ptr1, size) /\ InBuffer(ptr2, size)
      /\ last' = [op |-> "ds_memcmp", ptr1 |-> ptr1, ptr2 |-> ptr2,
                  size |-> size, result |-> memcmp(mem, ptr1, ptr2, size)]
      /\ UNCHANGED <<allocator, mem, copy, input, threads>>

\* void ds_memset(ptr dest, byte value, usize size) { memset(dest, value, size); }
ds_memset ==
    \E dest \in Addrs, value \in Bytes, size \in 0 .. MemLen :
      /\ InBuffer(dest, size)
      /\ mem' = memset(mem, dest, value, size)
      /\ last' = [op |-> "ds_memset", dest |-> dest, value |-> value,
                  size |-> size]
      /\ UNCHANGED <<allocator, copy, input, threads>>

\* void ds_print_memory_stats(void): the six numbers, in the order printed
ds_print_memory_stats ==
    /\ last' = [op |-> "ds_print_memory_stats",
                printed |-> <<stats.total_allocated, stats.total_freed,
                              stats.current_usage, stats.peak_usage,
                              stats.allocation_count, stats.free_count>>]
    /\ UNCHANGED <<allocator, mem, copy, input, threads>>

\* a caller's  copy = ds_get_memory_stats();
ds_get_memory_stats_assign ==
    /\ last' = [op |-> "ds_get_memory_stats", result |-> stats]
    /\ copy' = last'.result
    /\ Track(stats, FALSE)
    /\ UNCHANGED <<stats, heap, mem, input, threads>>

\* the allocator after ds_malloc(1) has returned a block
AfterCalls ==
    LET s1 == ds_malloc_stats(stats_init, 1, BLOCK)
    IN {[stats |-> s1, heap |-> One(1),
         allocs_only |-> TRUE, run_max |-> s1.current_usage]}

\* the byte-region calls and the statistics readers, on any buffer and after
\* any of the call sequences above
InitMem ==
    /\ \E h \in AfterCalls :
         /\ stats = h.stats /\ heap = h.heap
         /\ allocs_only = h.allocs_only /\ run_max = h.run_max
    /\ last = [op |-> "start"]
    /\ mem \in [0 .. MemLen - 1 -> Bytes]
    /\ copy = stats_init
    /\ input = [kind |-> "none"]
    /\ threads = NoThreads

NextMem ==
    \/ ds_memcpy
    \/ ds_memmove
    \/ ds_memcmp
    \/ ds_memset
    \/ ds_get_memory_stats
    \/ ds_get_memory_stats_assign
    \/ ds_print_memory_stats
    \/ ds_free

SpecMem == InitMem /\ [][NextMem]_vars

\* the byte-region calls alone, on any buffer
InitBytes ==
    /\ stats = stats_init
    /\ heap = EmptyBag
    /\ last = [op |-> "start"]
    /\ allocs_only = TRUE
    /\ run_max = 0
    /\ mem \in [0 .. MemLen - 1 -> Bytes]
    /\ copy = stats_init
    /\ input = [kind |-> "none"]
    /\ threads = NoThreads

NextBytes ==
    \/ ds_memcpy
    \/ ds_memmove
    \/ ds_memcmp
    \/ ds_memset

SpecBytes == InitBytes /\ [][NextBytes]_vars

(* ------------------------------------------------------------------ *)
(* Result functions and macros                                        *)
(* ------------------------------------------------------------------ *)
\* the values a Result_Code object can hold: the 14 enumerators and values
\* on both sides of them
Codes == (DS_SUCCESS - 1) .. (DS_ERROR_UNKNOWN + 2)
Messages == {"Success.", "Pointer must not be NULL"}
Sites == {[file |-> "list.c", line |-> 10], [file |-> "list.c", line |-> 20]}
\* typedef struct { Result_Code code; const char *message; const char *file;
\* int line; } Result;
Results == {RESULT_ERROR(c, m, s) : c \in Codes, m \in Messages, s \in Sites}

\* result_description with the text of DS_ERROR_NOT_FOUND under
\* DS_ERROR_DUPLICATE as well
result_description_repeated(code) ==
    CASE code = DS_SUCCESS -> "Success."
      [] code = DS_ERROR_INVALID_ARGUMENT -> "Invalid argument."
      [] code = DS_ERROR_MEMORY_ALLOCATION -> "Memory allocation failed."
      [] code = DS_ERROR_INDEX_OUT_OF_BOUNDS -> "Index out of bounds."
      [] code = DS_ERROR_EMPTY_CONTAINER -> "Container is empty."
      [] code = DS_ERROR_FULL_CONTAINER -> "Container is full."
      [] code = DS_ERROR_NOT_FOUND -> "Element not found."
      [] code = DS_ERROR_DUPLICATE -> "Element not found."
      [] code = DS_ERROR_OVERFLOW -> "Overflow occurred."
      [] code = DS_ERROR_UNDERFLOW -> "Underflow occurred."
      [] code = DS_ERROR_NULL_POINTER -> "Null pointer."
      [] code = DS_ERROR_CORRUPTED_DATA -> "Data corrupted."
      [] code = DS_ERROR_NOT_IMPLEMENTED -> "Not implemented."
      [] OTHER -> "Unknown error."

\* const char *result_description(Result_Code code): the switch
result_description(code) ==
    CASE code = DS_SUCCESS -> "Success."
      [] code = DS_ERROR_INVALID_ARGUMENT -> "Invalid argument."
      [] code = DS_ERROR_MEMORY_ALLOCATION -> "Memory allocation failed."
      [] code = DS_ERROR_INDEX_OUT_OF_BOUNDS -> "Index out of bounds."
      [] code = DS_ERROR_EMPTY_CONTAINER -> "Container is empty."
      [] code = DS_ERROR_FULL_CONTAINER -> "Container is full."
      [] code = DS_ERROR_NOT_FOUND -> "Element not found."
      [] code = DS_ERROR_DUPLICATE -> "Duplicate element."
      [] code = DS_ERROR_OVERFLOW -> "Overflow occurred."
      [] code = DS_ERROR_UNDERFLOW -> "Underflow occurred."
      [] code = DS_ERROR_NULL_POINTER -> "Null pointer."
      [] code = DS_ERROR_CORRUPTED_DATA -> "Data corrupted."
      [] code = DS_ERROR_NOT_IMPLEMENTED -> "Not implemented."
      [] OTHER -> "Unknown error."

\* bool result_is_success(Result result)
result_is_success(result) == result.code = DS_SUCCESS

\* result_is_error taking the errors to be the codes above DS_SUCCESS
result_is_error_above(result) == result.code > DS_SUCCESS

\* bool result_is_error(Result result)
result_is_error(result) == result.code # DS_SUCCESS

\* what none of the stateless functions and macros touches
untouched == <<stats, heap, allocs_only, run_max, mem, copy, input, threads>>

call_result_description ==
    /\ input.kind = "Result"
    /\ last' = [op |-> "result_description", code |-> input.result.code,
                result |-> result_description(input.result.code)]
    /\ UNCHANGED untouched

call_result_is_success ==
    /\ input.kind = "Result"
    /\ last' = [op |-> "result_is_success",
                result |-> result_is_success(input.result)]
    /\ UNCHANGED untouched

call_result_is_error ==
    /\ input.kind = "Result"
    /\ last' = [op |-> "result_is_error",
                result |-> result_is_error(input.result)]
    /\ UNCHANGED untouched

\* a propagation macro that names expr twice: if(result_is_error(expr))
\* return expr;  the second evaluation can give any Result
CHECK_RESULT_twice ==
    /\ input.kind = "Result"
    /\ \E again \in Results :
         last' = IF result_is_error(input.result)
                 THEN [op |-> "CHECK_RESULT", evaluations |-> 2,
                       returned |-> TRUE, result |-> again]
                 ELSE [op |-> "CHECK_RESULT", evaluations |-> 1,
                       returned |-> FALSE]
    /\ UNCHANGED untouched

\* Result _result = (expr); if(result_is_error(_result)) return _result;
\* expr evaluates to input.result
CHECK_RESULT ==
    /\ input.kind = "Result"
    /\ LET _result == input.result
       IN last' = IF result_is_error(_result)
                  THEN [op |-> "CHECK_RESULT", evaluations |-> 1,
                        returned |-> TRUE, result |-> _result]
                  ELSE [op |-> "CHECK_RESULT", evaluations |-> 1,
                        returned |-> FALSE]
    /\ UNCHANGED untouched

\* DS_ASSERT returning a message of its own
DS_ASSERT_own_message ==
    /\ input.kind = "condition"
    /\ last' = IF ~input.condition
               THEN [op |-> "DS_ASSERT", returned |-> TRUE,
                     result |-> RESULT_ERROR(DS_ERROR_INVALID_ARGUMENT,
                                             "Assertion failed.", input.site)]
               ELSE [op |-> "DS_ASSERT", returned |-> FALSE]
    /\ UNCHANGED untouched

\* if(!(condition)) return RESULT_ERROR(DS_ERROR_INVALID_ARGUMENT, message);
DS_ASSERT ==
    /\ input.kind = "condition"
    /\ last' = IF ~input.condition
               THEN [op |-> "DS_ASSERT", returned |-> TRUE,
                     result |-> RESULT_ERROR(DS_ERROR_INVALID_ARGUMENT,
                                             input.message, input.site)]
               ELSE [op |-> "DS_ASSERT", returned |-> FALSE]
    /\ UNCHANGED untouched

\* the statement that follows a macro in the enclosing function: reached
\* only when the macro's do { ... } while(0) ended without a return
statement_after ==
    /\ last.op \in {"CHECK_RESULT", "DS_ASSERT"}
    /\ ~last.returned
    /\ last' = [op |-> "statement_after", macro |-> last.op]
    /\ UNCHANGED untouched

(* ------------------------------------------------------------------ *)
(* Powers of two                                                      *)
(* ------------------------------------------------------------------ *)
\* a | b and a & b on naturals, bit by bit
RECURSIVE BitOr(_, _)
BitOr(a, b) ==
    IF a = 0 THEN b
    ELSE IF b = 0 THEN a
    ELSE Max(a % 2, b % 2) + 2 * BitOr(a \div 2, b \div 2)

RECURSIVE BitAnd(_, _)
BitAnd(a, b) ==
    IF a = 0 \/ b = 0 THEN 0
    ELSE Min(a % 2, b % 2) + 2 * BitAnd(a \div 2, b \div 2)

\* a usize of WordBits bits
WordModulus == 2 ^ WordBits
Word == 0 .. (WordModulus - 1)
WrapWord(x) == x % WordModulus

\* n >> k
RECURSIVE ShiftRight(_, _)
ShiftRight(n, k) ==
    IF k = 0 \/ n = 0 THEN n ELSE ShiftRight(n \div 2, k - 1)

\* the shift distances of next_power_of_two, in order; the last one is
\* compiled under __LP64__ and moves no bit of a usize of 32 bits or fewer
Shifts == <<1, 2, 4, 8, 16, 32>>

\* n |= n >> Shifts[i]; for i and every later distance
RECURSIVE Smear(_, _)
Smear(n, i) ==
    IF i > Len(Shifts) THEN n
    ELSE Smear(BitOr(n, ShiftRight(n, Shifts[i])), i + 1)

\* next_power_of_two without the n--
next_power_of_two_no_decrement(n) ==
    IF n = 0 THEN 1 ELSE WrapWord(Smear(n, 1) + 1)

\* usize next_power_of_two(usize n)
next_power_of_two(n) ==
    IF n = 0 THEN 1 ELSE WrapWord(Smear(WrapWord(n - 1), 1) + 1)

\* bool is_power_of_two(usize n)
is_power_of_two(n) == n # 0 /\ BitAnd(n, WrapWord(n - 1)) = 0

call_next_power_of_two ==
    /\ input.kind = "usize"
    /\ last' = [op |-> "next_power_of_two", n |-> input.n,
                result |-> next_power_of_two(input.n)]
    /\ UNCHANGED untouched

call_is_power_of_two ==
    /\ input.kind = "usize"
    /\ last' = [op |-> "is_power_of_two", n |-> input.n,
                result |-> is_power_of_two(input.n)]
    /\ UNCHANGED untouched

\* the stateless functions and the macros, on every argument: a Result, a
\* condition with its message and place, or a usize
Inputs ==
    {[kind |-> "Result", result |-> r] : r \in Results}
    \cup {[kind |-> "condition", condition |-> c, message |-> m, site |-> s] :
            c \in BOOLEAN, m \in Messages, s \in Sites}
    \cup {[kind |-> "usize", n |-> n] : n \in Word}

InitPure ==
    /\ stats = stats_init
    /\ heap = EmptyBag
    /\ last = [op |-> "start"]
    /\ allocs_only = TRUE
    /\ run_max = 0
    /\ mem = [a \in 0 .. MemLen - 1 |-> 0]
    /\ copy = stats_init
    /\ input \in Inputs
    /\ threads = NoThreads

NextPure ==
    \/ call_result_description
    \/ call_result_is_success
    \/ call_result_is_error
    \/ CHECK_RESULT
    \/ DS_ASSERT
    \/ statement_after
    \/ call_next_power_of_two
    \/ call_is_power_of_two

SpecPure == InitPure /\ [][NextPure]_vars

(* ------------------------------------------------------------------ *)
(* Two threads in ds_malloc and ds_free                               *)
(* ------------------------------------------------------------------ *)
\* Each thread makes one call. A statement on a field of stats is a load
\* into a register and then a store, and the steps of the two threads
\* interleave; malloc and free themselves are thread-safe. When
\* threads.guarded holds every call is made between lock and unlock of one
\* mutex, which threads.owner holds.
Threads == {1, 2}
ThreadSizes == {1}

Th(t) == threads.thread[t]
\* where a call goes when its statements are over
Return == IF threads.guarded THEN "unlock" ELSE "done"
Become(t, r) == threads' = [threads EXCEPT !.thread[t] = r]

\* field += amount; by thread t, and on to the statement next
Update(t, field, amount, next) ==
    /\ Th(t).pc = field
    /\ IF ~Th(t).loaded
       THEN /\ Become(t, [Th(t) EXCEPT !.reg = stats[field],
                                       !.loaded = TRUE])
            /\ UNCHANGED stats
       ELSE /\ stats' = [stats EXCEPT ![field] = Wrap(Th(t).reg + amount)]
            /\ Become(t, [Th(t) EXCEPT !.reg = 0, !.loaded = FALSE,
                                       !.pc = next])
    /\ UNCHANGED <<heap, last, allocs_only, run_max, mem, copy, input>>

\* the mutex a caller adds around the call
lock(t) ==
    /\ Th(t).pc = "lock"
    /\ threads.owner = 0
    /\ threads' = [threads EXCEPT !.owner = t, !.thread[t].pc = "call"]
    /\ UNCHANGED <<stats, heap, last, allocs_only, run_max, mem, copy, input>>

unlock(t) ==
    /\ Th(t).pc = "unlock"
    /\ threads' = [threads EXCEPT !.owner = 0, !.thread[t].pc = "done"]
    /\ UNCHANGED <<stats, heap, last, allocs_only, run_max, mem, copy, input>>

\* ptr result = malloc(size); if(result)
enter_ds_malloc(t) ==
    /\ Th(t).pc = "call"
    /\ \E size \in ThreadSizes : \E r \in malloc(heap, size) :
         /\ heap' = r.heap
         /\ Become(t, [Th(t) EXCEPT
                         !.op = "ds_malloc", !.size = size,
                         !.result = r.result,
                         !.pc = IF r.result # NULL THEN "total_allocated"
                                ELSE Return])
    /\ UNCHANGED <<stats, last, allocs_only, run_max, mem, copy, input>>

\* stats.total_allocated += size;
add_total_allocated(t) ==
    Update(t, "total_allocated", Th(t).size, "current_usage")

\* stats.current_usage += size;
add_current_usage(t) ==
    Update(t, "current_usage", Th(t).size, "allocation_count")

\* stats.allocation_count++ storing back the value it loaded
inc_allocation_count_same(t) ==
    Update(t, "allocation_count", 0, "peak_test")

\* stats.allocation_count++;
inc_allocation_count(t) ==
    Update(t, "allocation_count", 1, "peak_test")

\* if(stats.current_usage > stats.peak_usage)
test_peak_usage(t) ==
    /\ Th(t).pc = "peak_test"
    /\ Become(t, [Th(t) EXCEPT
                    !.pc = IF stats.current_usage > stats.peak_usage
                           THEN "peak_usage" ELSE Return])
    /\ UNCHANGED <<stats, heap, last, allocs_only, run_max, mem, copy, input>>

\* stats.peak_usage = stats.current_usage;
set_peak_usage(t) ==
    /\ Th(t).pc = "peak_usage"
    /\ IF ~Th(t).loaded
       THEN /\ Become(t, [Th(t) EXCEPT !.reg = stats.current_usage,
                                       !.loaded = TRUE])
            /\ UNCHANGED stats
       ELSE /\ stats' = [stats EXCEPT !.peak_usage = Th(t).reg]
            /\ Become(t, [Th(t) EXCEPT !.reg = 0, !.loaded = FALSE,
                                       !.pc = Return])
    /\ UNCHANGED <<heap, last, allocs_only, run_max, mem, copy, input>>

\* if(pointer) { free(pointer);
enter_ds_free(t) ==
    /\ Th(t).pc = "call"
    /\ \E pointer \in {NULL} \cup (IF heap = EmptyBag THEN {} ELSE {BLOCK}) :
       \E old \in Pointee(heap, pointer) :
         /\ heap' = IF pointer # NULL THEN free(heap, old) ELSE heap
         /\ Become(t, [Th(t) EXCEPT
                         !.op = "ds_free", !.pointer = pointer,
                         !.pc = IF pointer # NULL THEN "free_count"
                                ELSE Return])
    /\ UNCHANGED <<stats, last, allocs_only, run_max, mem, copy, input>>

\* stats.free_count++;
inc_free_count(t) ==
    Update(t, "free_count", 1, Return)

\* the allocator after zero, one and two calls ds_malloc(1) that succeeded
AfterMallocs ==
    LET s1 == ds_malloc_stats(stats_init, 1, BLOCK)
        s2 == ds_malloc_stats(s1, 1, BLOCK)
    IN {[stats |-> stats_init, heap |-> EmptyBag],
        [stats |-> s1, heap |-> One(1)],
        [stats |-> s2, heap |-> One(1) (+) One(1)]}

InitThreads ==
    /\ \E h \in AfterMallocs, guarded \in BOOLEAN :
         /\ stats = h.stats /\ heap = h.heap
         /\ run_max = h.stats.current_usage
         /\ threads =
              [guarded |-> guarded, owner |-> 0, before |-> h.stats,
               thread |-> [t \in Threads |->
                             [pc |-> IF guarded THEN "lock" ELSE "call",
                              op |-> "none", size |-> 0, pointer |-> NULL,
                              result |-> NULL, reg |-> 0, loaded |-> FALSE]]]
    /\ allocs_only = TRUE
    /\ last = [op |-> "start"]
    /\ mem = [a \in 0 .. MemLen - 1 |-> 0]
    /\ copy = stats_init
    /\ input = [kind |-> "none"]

NextThreads ==
    \E t \in Threads :
      \/ lock(t)
      \/ enter_ds_malloc(t)
      \/ add_total_allocated(t)
      \/ add_current_usage(t)
      \/ inc_allocation_count(t)
      \/ test_peak_usage(t)
      \/ set_peak_usage(t)
      \/ enter_ds_free(t)
      \/ inc_free_count(t)
      \/ unlock(t)

SpecThreads == InitThreads /\ [][NextThreads]_vars

(* ------------------------------------------------------------------ *)
(* Properties                                                         *)
(* ------------------------------------------------------------------ *)
Fields == {"total_allocated", "total_freed", "current_usage", "peak_usage",
           "allocation_count", "free_count"}
\* the fields fs of the aggregate are the same before and after a call
Same(fs) == \A f \in fs : stats'[f] = stats[f]
AllZero(s) == \A f \in Fields : s[f] = 0
PtrOps == {"ds_malloc", "ds_calloc", "ds_realloc"}

\* C1: a successful ds_malloc(n) adds n to total_allocated and current_usage,
\* adds 1 to allocation_count, makes peak_usage the larger of the old peak and
\* the new current_usage, and leaves total_freed and free_count alone; from the
\* all-zero aggregate the result is n, n, n, 1.
C1_MallocEffect ==
    [][(last'.op = "ds_malloc" /\ last'.result # NULL) =>
         /\ stats'.total_allocated = Wrap(stats.total_allocated + last'.size)
         /\ stats'.current_usage = Wrap(stats.current_usage + last'.size)
         /\ stats'.allocation_count = Wrap(stats.allocation_count + 1)
         /\ stats'.peak_usage = Max(stats.peak_usage, stats'.current_usage)
         /\ Same({"total_freed", "free_count"})
         /\ (AllZero(stats) =>
               /\ stats'.total_allocated = last'.size
               /\ stats'.current_usage = last'.size
               /\ stats'.peak_usage = last'.size
               /\ stats'.allocation_count = 1)]_vars

C1_Witness ==
    /\ last.op = "ds_malloc" /\ last.result # NULL /\ last.size > 0
    /\ stats.total_allocated = last.size /\ stats.peak_usage = last.size
    /\ stats.allocation_count = 1

\* C2: when the underlying allocator returns NULL, ds_malloc, ds_calloc and
\* ds_realloc return NULL and leave all six fields as they were.
C2_RefusalLeavesStats ==
    [][(last'.op \in PtrOps /\ last'.raw = NULL) =>
         /\ last'.result = NULL
         /\ Same(Fields)]_vars

C2_Witness ==
    /\ last.op = "ds_malloc" /\ last.raw = NULL /\ last.size > 0
    /\ stats.total_allocated > 0

\* C3: in every reachable state peak_usage is the largest value current_usage
\* has held since the last reset, and so is at least current_usage. Both are 0
\* at the start, so peak_usage is that running maximum exactly when a reset
\* restarts it at the new current_usage and every other call leaves it at the
\* larger of the old peak_usage and the new current_usage.
C3_PeakIsMaxUsage ==
    [][/\ stats'.peak_usage =
            IF last'.op = "ds_reset_memory_stats"
            THEN stats'.current_usage
            ELSE Max(stats.peak_usage, stats'.current_usage)
       /\ stats'.peak_usage >= stats'.current_usage]_vars

\* C4: while only successful ds_malloc and ds_calloc calls have run since the
\* aggregate was zeroed, peak_usage is the largest current_usage observed after
\* any of them and is at least current_usage.
C4_PeakAfterAllocations ==
    allocs_only =>
      /\ stats.peak_usage = run_max
      /\ stats.peak_usage >= stats.current_usage

C4_Witness ==
    /\ allocs_only /\ last.op = "ds_calloc"
    /\ stats.allocation_count = 2 /\ stats.peak_usage > 0

\* C5: in every reachable state current_usage = total_allocated - total_freed.
C5_UsageIsAllocatedMinusFreed ==
    stats.current_usage = (stats.total_allocated - stats.total_freed) % Modulus

C5_Witness ==
    /\ last.op = "ds_free" /\ last.pointer # NULL
    /\ stats.current_usage > 0 /\ stats.free_count > 0

\* C6: ds_free of a block adds exactly 1 to free_count and leaves the other
\* five fields alone.
C6_FreeCountsOnly ==
    [][(last'.op = "ds_free" /\ last'.pointer # NULL) =>
         /\ stats'.free_count = Wrap(stats.free_count + 1)
         /\ Same(Fields \ {"free_count"})
         /\ BagCardinality(heap') = BagCardinality(heap) - 1]_vars

C6_Witness ==
    /\ last.op = "ds_free" /\ last.pointer # NULL
    /\ stats.free_count = 1 /\ stats.total_allocated > 0

\* C7: ds_free(NULL) changes no field of the aggregate.
C7_FreeNullNoOp ==
    [][(last'.op = "ds_free" /\ last'.pointer = NULL) =>
         Same(Fields) /\ heap' = heap]_vars

C7_Witness ==
    /\ last.op = "ds_free" /\ last.pointer = NULL
    /\ stats.allocation_count > 0 /\ Used(heap) > 0

\* C8: ds_reset_memory_stats zeroes all six fields, so a ds_get_memory_stats
\* right after it returns the all-zero aggregate, and it leaves the allocated
\* blocks as they are.
C8_ResetZeroes ==
    [][/\ (last'.op = "ds_reset_memory_stats" =>
             AllZero(stats') /\ heap' = heap)
       /\ (last.op = "ds_reset_memory_stats" /\
           last'.op = "ds_get_memory_stats" => AllZero(last'.result))]_vars

C8_Witness ==
    /\ last.op = "ds_get_memory_stats" /\ AllZero(last.result)
    /\ Used(heap) > 0

C10_CallocEffect ==
    [][(last'.op = "ds_calloc" /\ last'.result # NULL) =>
         LET total == Wrap(last'.count * last'.size)
         IN /\ stats'.total_allocated = Wrap(stats.total_allocated + total)
            /\ stats'.current_usage = Wrap(stats.current_usage + total)
            /\ stats'.allocation_count = Wrap(stats.allocation_count + 1)
            /\ stats'.peak_usage = Max(stats.peak_usage, stats'.current_usage)
            /\ Same({"total_freed", "free_count"})
            /\ heap' = heap (+) One(total)]_vars

C10_Witness ==
    /\ last.op = "ds_calloc" /\ last.result # NULL
    /\ last.count * last.size > 0
    /\ BagIn(last.count * last.size, heap)
    /\ stats.total_allocated >= last.count * last.size

\* the number of bytes the call recorded in l asked for
Requested(l) ==
    IF l.op \in {"ds_malloc", "ds_realloc", "CHECKED_ALLOC"} THEN l.size
    ELSE IF l.op \in {"ds_calloc", "ds_alloc_array", "ds_realloc_array"}
         THEN Wrap(l.count * l.size)
    ELSE 0

\* C11: across every call other than ds_reset_memory_stats, allocation_count
\* and free_count do not decrease, and total_allocated does not decrease as
\* long as the bytes requested so far still fit in usize.
C11_CountersNeverDecrease ==
    [][(last'.op # "ds_reset_memory_stats") =>
         /\ stats'.allocation_count >= stats.allocation_count
         /\ stats'.free_count >= stats.free_count
         /\ (stats.total_allocated + Requested(last') < Modulus =>
               stats'.total_allocated >= stats.total_allocated)]_vars

C11_Witness ==
    /\ last.op = "ds_realloc" /\ last.result # NULL /\ last.size > 0
    /\ stats.total_allocated > last.size
    /\ stats.allocation_count > 0 /\ stats.free_count > 0

Readers == {"ds_memcpy", "ds_memmove", "ds_memcmp", "ds_memset",
            "ds_get_memory_stats", "ds_print_memory_stats"}

\* C12: ds_memcpy, ds_memmove, ds_memcmp, ds_memset, ds_get_memory_stats and
\* ds_print_memory_stats leave all six fields as they were; the value
\* ds_get_memory_stats returns equals the aggregate field by field; and a
\* caller's copy of it changes only when the caller assigns a new one, so no
\* later allocator call alters it.
C12_ReadersLeaveStats ==
    [][/\ (last'.op \in Readers => Same(Fields))
       /\ (last'.op = "ds_get_memory_stats" =>
             \A f \in Fields : last'.result[f] = stats[f])
       /\ (copy' # copy =>
             /\ last'.op = "ds_get_memory_stats"
             /\ \A f \in Fields : copy'[f] = stats[f])]_vars

C12_Witness ==
    /\ last.op = "ds_memcpy" /\ last.size > 0
    /\ copy.total_allocated > 0 /\ copy.free_count = 0
    /\ stats.free_count > 0

\* C13: when the underlying allocator refuses, CHECKED_ALLOC(ptr, type) makes
\* the enclosing function return a Result with code
\* DS_ERROR_MEMORY_ALLOCATION and the message "Failed to allocate <type>", and
\* all six fields stay as they were; when it succeeds nothing is returned, ptr
\* is not null and the fields change as a successful ds_malloc(sizeof(type))
\* changes them.
C13_CheckedAlloc ==
    [][(last'.op = "CHECKED_ALLOC") =>
         IF last'.raw = NULL
         THEN /\ last'.returned
              /\ last'.result.code = DS_ERROR_MEMORY_ALLOCATION
              /\ last'.result.message = "Failed to allocate " \o last'.type
              /\ Same(Fields)
         ELSE /\ ~last'.returned
              /\ last'.ptr # NULL
              /\ last'.size = sizeof(last'.type)
              /\ stats'.total_allocated =
                   Wrap(stats.total_allocated + last'.size)
              /\ stats'.current_usage = Wrap(stats.current_usage + last'.size)
              /\ stats'.allocation_count = Wrap(stats.allocation_count + 1)
              /\ stats'.peak_usage =
                   Max(stats.peak_usage, stats'.current_usage)
              /\ Same({"total_freed", "free_count"})]_vars

C13_Witness ==
    /\ last.op = "CHECKED_ALLOC" /\ last.returned
    /\ last.result.message = "Failed to allocate byte"
    /\ stats.allocation_count > 0 /\ stats.current_usage > 0

\* C14: CHECK_RESULT(expr) evaluates expr once; when the code of its value is
\* not DS_SUCCESS the enclosing function returns that value with code,
\* message, file and line as they were and the statement after the macro is
\* not reached; when the code is DS_SUCCESS nothing is returned and execution
\* goes on.
C14_CheckResult ==
    /\ (last.op = "CHECK_RESULT" =>
          /\ last.evaluations = 1
          /\ IF input.result.code # DS_SUCCESS
             THEN /\ last.returned
                  /\ last.result.code = input.result.code
                  /\ last.result.message = input.result.message
                  /\ last.result.file = input.result.file
                  /\ last.result.line = input.result.line
             ELSE ~last.returned)
    /\ (last.op = "statement_after" /\ last.macro = "CHECK_RESULT" =>
          input.result.code = DS_SUCCESS)

C14_Witness ==
    /\ last.op = "CHECK_RESULT" /\ last.returned
    /\ last.result.code = DS_ERROR_NOT_FOUND
    /\ last.result.message = "Pointer must not be NULL"
    /\ last.result.line = 20

\* C15: DS_ASSERT(condition, message) with a false condition makes the
\* enclosing function return a Result with code DS_ERROR_INVALID_ARGUMENT
\* and the caller's message, made at the place of the macro; with a true
\* condition nothing is returned and the statement after the macro is
\* reached only then.
C15_Assert ==
    /\ (last.op = "DS_ASSERT" =>
          IF ~input.condition
          THEN /\ last.returned
               /\ last.result.code = DS_ERROR_INVALID_ARGUMENT
               /\ last.result.message = input.message
               /\ last.result.file = input.site.file
               /\ last.result.line = input.site.line
          ELSE ~last.returned)
    /\ (last.op = "statement_after" /\ last.macro = "DS_ASSERT" =>
          input.condition)

C15_Witness ==
    /\ last.op = "DS_ASSERT" /\ last.returned
    /\ last.result.message = "Pointer must not be NULL"

\* the 13 kinds other than DS_ERROR_UNKNOWN
Described == DS_SUCCESS .. DS_ERROR_NOT_IMPLEMENTED

\* C16: result_description returns a non-empty string for every code;
\* "Unknown error." for DS_ERROR_UNKNOWN and for every value outside the
\* enumeration; "Success.", the message of RESULT_SUCCESS, for DS_SUCCESS;
\* and a different string for each of the 13 kinds other than
\* DS_ERROR_UNKNOWN.
C16_Description ==
    last.op = "result_description" =>
      /\ last.result # ""
      /\ (last.code \notin Described => last.result = "Unknown error.")
      /\ (last.code = DS_SUCCESS =>
            /\ last.result = "Success."
            /\ \A s \in Sites : last.result = RESULT_SUCCESS(s).message)
      /\ (last.code \in Described =>
            \A other \in Described \ {last.code} :
               result_description(other) # last.result)

C16_Witness ==
    /\ last.op = "result_description" /\ last.code = DS_ERROR_DUPLICATE
    /\ last.result = "Duplicate element."

\* C17: result_is_success(r) and result_is_error(r) are never both true nor
\* both false; result_is_success(r) is true exactly when r.code is
\* DS_SUCCESS; and neither changes with the message, file or line of r.
C17_Complement ==
    /\ (last.op = "result_is_success" =>
          /\ last.result = (input.result.code = DS_SUCCESS)
          /\ last.result # result_is_error(input.result)
          /\ \A r \in Results : r.code = input.result.code =>
               result_is_success(r) = last.result)
    /\ (last.op = "result_is_error" =>
          /\ last.result # result_is_success(input.result)
          /\ \A r \in Results : r.code = input.result.code =>
               result_is_error(r) = last.result)

C17_Witness ==
    /\ last.op = "result_is_error" /\ last.result
    /\ input.result.code < DS_SUCCESS

\* what a call can return and leave in the aggregate, from statistics s and
\* heap h
ds_malloc_outcomes(s, h, size) ==
    {[result |-> r.result, stats |-> ds_malloc_stats(s, size, r.result)] :
       r \in malloc(h, size)}

ds_realloc_outcomes(s, h, pointer, new_size) ==
    UNION {{[result |-> r.result,
             stats |-> ds_realloc_stats(s, new_size, r.result)] :
              r \in realloc(h, pointer, old, new_size)} :
           old \in Pointee(h, pointer)}

\* return ds_calloc(count, element_size);
ds_alloc_array_outcomes(s, h, count, element_size) ==
    {[result |-> r.result,
      stats |-> ds_calloc_stats(s, count, element_size, r.result)] :
       r \in calloc(h, count, element_size)}

\* return ds_realloc(array, new_count * element_size);
ds_realloc_array_outcomes(s, h, array, new_count, element_size) ==
    ds_realloc_outcomes(s, h, array, Wrap(new_count * element_size))

\* the pointers a caller can pass in the current state
Pointers == {NULL} \cup (IF heap = EmptyBag THEN {} ELSE {BLOCK})
AllCounts == Counts \cup ArrayCounts

\* C18 as stated: in every state, for every count and element size,
\* ds_alloc_array(count, element_size) can return and leave in the aggregate
\* exactly what ds_malloc(count*element_size mod 2^w) can, and
\* ds_realloc_array(p, new_count, element_size) exactly what
\* ds_realloc(p, new_count*element_size mod 2^w) can.
C18_WrappersArePrimitives ==
    \A count \in AllCounts, element_size \in ElemSizes :
      /\ ds_alloc_array_outcomes(stats, heap, count, element_size) =
           ds_malloc_outcomes(stats, heap, Wrap(count * element_size))
      /\ \A p \in Pointers :
           ds_realloc_array_outcomes(stats, heap, p, count, element_size) =
             ds_realloc_outcomes(stats, heap, p, Wrap(count * element_size))

\* C18 amended: a call ds_alloc_array(count, element_size) can return and
\* leave in the aggregate exactly what ds_malloc(count*element_size) can
\* when the product fits in usize, and is always refused, with the aggregate
\* as it was, when the product does not fit, and it ends in one of these
\* outcomes; a call ds_realloc_array(p, new_count, element_size) changes the
\* aggregate as ds_realloc(p, new_count*element_size mod 2^w) does: a
\* non-null result for a non-zero product adds the product to total_allocated
\* and current_usage, and nothing else changes.
C18_WrappersAmended ==
    [][/\ (last'.op = "ds_alloc_array" =>
             LET product == last'.count * last'.size
                 primitive ==
                   IF product < Modulus
                   THEN ds_malloc_outcomes(stats, heap, product)
                   ELSE {[result |-> NULL, stats |-> stats]}
             IN /\ ds_alloc_array_outcomes(stats, heap, last'.count,
                                           last'.size) = primitive
                /\ [result |-> last'.result, stats |-> stats'] \in primitive)
       /\ (last'.op = "ds_realloc_array" =>
             LET new_size == Wrap(last'.count * last'.size)
             IN IF last'.result # NULL /\ new_size > 0
                THEN /\ stats'.total_allocated =
                          Wrap(stats.total_allocated + new_size)
                     /\ stats'.current_usage =
                          Wrap(stats.current_usage + new_size)
                     /\ Same({"allocation_count", "free_count",
                              "total_freed", "peak_usage"})
                ELSE Same(Fields))]_vars

C18_Witness ==
    /\ last.op = "ds_alloc_array" /\ last.result = NULL
    /\ last.count * last.size >= Modulus
    /\ Fits(heap, Wrap(last.count * last.size))
    /\ stats.allocation_count > 0

\* C19 as stated: after ds_memcpy(dest, src, size) on regions that do not
\* overlap, and after ds_memmove(dest, src, size) on any regions,
\* ds_memcmp(dest, src, size) is 0; and after ds_memmove dest holds the bytes
\* src held before the call.
C19_CopyRoundTrip ==
    /\ (last.op = "ds_memcpy" /\ ~Overlap(last.dest, last.src, last.size) =>
          memcmp(mem, last.dest, last.src, last.size) = 0)
    /\ (last.op = "ds_memmove" =>
          /\ memcmp(mem, last.dest, last.src, last.size) = 0
          /\ Held(mem, last.dest, last.size) = last.before)

\* C19 amended: after ds_memcpy or ds_memmove on regions that do not overlap,
\* and after ds_memmove of a region onto itself, ds_memcmp(dest, src, size) is
\* 0; after ds_memmove on any regions dest holds the bytes src held before
\* the call.
C19_CopyRoundTripAmended ==
    /\ (last.op = "ds_memcpy" /\ ~Overlap(last.dest, last.src, last.size) =>
          memcmp(mem, last.dest, last.src, last.size) = 0)
    /\ (last.op = "ds_memmove" =>
          /\ (~Overlap(last.dest, last.src, last.size)
                \/ last.dest = last.src =>
                memcmp(mem, last.dest, last.src, last.size) = 0)
          /\ Held(mem, last.dest, last.size) = last.before)

C19_Witness ==
    /\ last.op = "ds_memmove"
    /\ Overlap(last.dest, last.src, last.size) /\ last.dest > last.src
    /\ memcmp(mem, last.dest, last.src, last.size) # 0
    /\ Held(mem, last.dest, last.size) = last.before

\* x is one of the powers of two a usize can hold
PowerOfTwo(x) == \E k \in 0 .. WordBits - 1 : x = 2 ^ k
\* x is the least power of two that is at least n
LeastPowerOfTwo(x, n) ==
    /\ PowerOfTwo(x) /\ x >= n
    /\ \A y \in Word : PowerOfTwo(y) /\ y >= n => x <= y

Allocated == {t \in Threads : Th(t).op = "ds_malloc" /\ Th(t).result # NULL}
Freed == {t \in Threads : Th(t).op = "ds_free" /\ Th(t).pointer # NULL}
RECURSIVE Bytes_of(_)
Bytes_of(S) ==
    IF S = {} THEN 0
    ELSE LET t == CHOOSE x \in S : TRUE
         IN Th(t).size + Bytes_of(S \ {t})
Finished == \A t \in Threads : Th(t).pc = "done"
\* an update of the aggregate was lost
Lost ==
    \/ stats.allocation_count <
         threads.before.allocation_count + Cardinality(Allocated)
    \/ stats.total_allocated <
         threads.before.total_allocated + Bytes_of(Allocated)
    \/ stats.current_usage # stats.total_allocated - stats.total_freed

\* C21: when the two threads make their calls under one mutex, at most one
\* thread is inside a call at a time and, once both have returned, no update
\* is lost: allocation_count has grown by the number of successful ds_malloc
\* calls, total_allocated by the bytes they asked for, free_count by the
\* number of blocks freed, and current_usage = total_allocated - total_freed.
\* Without the mutex a final state with a lost update is reachable
\* (C21_Witness).
C21_MutexKeepsUpdates ==
    threads.guarded =>
      /\ \A t \in Threads :
           Th(t).pc \notin {"lock", "done"} => threads.owner = t
      /\ (Finished =>
            /\ ~Lost
            /\ stats.allocation_count =
                 Wrap(threads.before.allocation_count + Cardinality(Allocated))
            /\ stats.total_allocated =
                 Wrap(threads.before.total_allocated + Bytes_of(Allocated))
            /\ stats.free_count =
                 Wrap(threads.before.free_count + Cardinality(Freed)))

C21_Witness ==
    /\ ~threads.guarded /\ Finished
    /\ Cardinality(Allocated) = 2
    /\ stats.allocation_count <
         threads.before.allocation_count + Cardinality(Allocated)
    /\ stats.total_allocated <
         threads.before.total_allocated + Bytes_of(Allocated)

====
